---------------------------- MODULE Spec2Model ----------------------------
(***************************************************************************)
(* Risograph rendering pipeline (src/lib/risograph.ts, src/lib/halftone.ts) *)
(* as a state machine.                                                      *)
(*                                                                          *)
(* Numbers.  A JavaScript number that holds a fraction is modelled in       *)
(* fixed point: the integer v stands for v / SCALE.  Integers of the code   *)
(* (pixel coordinates, byte values, loop indices, cell coordinates) are     *)
(* plain integers.  A value read back from a Float32Array is the stored     *)
(* value rounded to the coarser single-precision grid (Fround).  NaN, which *)
(* the code produces when it divides by a zero pitch, is the value NaN.     *)
(***************************************************************************)
EXTENDS Integers, Sequences, FiniteSets, TLC

\* ------------------------------------------------------------------------
\* Bounds of the model
\* ------------------------------------------------------------------------

\* the width and the height of the non-empty bitmaps
MaxWidth == 2

MaxHeight == 2

\* the longest ink list
MaxInks == 2

\* calls of processRisograph with the same arguments
MaxRenders == 2

\* ------------------------------------------------------------------------
\* Fixed-point arithmetic standing for IEEE double arithmetic
\* ------------------------------------------------------------------------

\* resolution of a double in the model: v stands for v / SCALE
SCALE == 10000

\* resolution of a Float32Array element: multiples of F32STEP / SCALE
F32STEP == 10

\* NaN: a value no computation of the model produces as a number
NaN == -(10 * SCALE * SCALE)

IsNaN(v) == v = NaN

Abs(v) == IF v < 0 THEN -v ELSE v

Sign(v) == IF v < 0 THEN -1 ELSE 1

Max(a, b) == IF a >= b THEN a ELSE b

Min(a, b) == IF a <= b THEN a ELSE b

\* the fixed-point value of the integer n
FromInt(n) == n * SCALE

\* a * b, rounded to the nearest representable value (split to stay in range)
Mul(a, b) ==
  LET x == Abs(a)
      y == Abs(b)
      hi == x \div SCALE
      lo == x % SCALE
  IN  Sign(a) * Sign(b) * (hi * y + ((lo * y + SCALE \div 2) \div SCALE))

\* a / b for b # 0, rounded to the nearest representable value
Div(a, b) ==
  LET x == Abs(a)
      y == Abs(b)
  IN  Sign(a) * Sign(b) * ((x * SCALE + y \div 2) \div y)

\* the integer a / b of two integers as a fixed-point value
Ratio(a, b) ==
  LET x == Abs(a)
      y == Abs(b)
  IN  Sign(a) * Sign(b) * ((x * SCALE + y \div 2) \div y)

\* Math.floor: the greatest integer <= v / SCALE
Floor(v) == v \div SCALE

\* Math.round: floor(x + 0.5), so that -0.5 rounds to 0 and 0.5 to 1
Round(v) == (v + SCALE \div 2) \div SCALE

\* x % 1 of JavaScript: the remainder of truncated division, signed as x
Mod1(v) == IF v >= 0 THEN v % SCALE ELSE -((-v) % SCALE)

\* the greatest r in lo..hi with r * r <= n, for lo * lo <= n
RECURSIVE ISqrtIn(_, _, _)
ISqrtIn(n, lo, hi) ==
  IF lo >= hi THEN lo
  ELSE LET mid == (lo + hi + 1) \div 2
       IN  IF mid * mid <= n THEN ISqrtIn(n, mid, hi)
           ELSE ISqrtIn(n, lo, mid - 1)

ISqrt(n) == ISqrtIn(n, 0, Min(n, 46340))

\* Math.sqrt of v >= 0; large magnitudes keep fewer fraction digits
Sqrt(v) ==
  IF v <= 200000 THEN ISqrt(v * SCALE) ELSE 10 * ISqrt(v * 100)

\* Math.fround: the value a Float32Array element holds after a store
Fround(v) ==
  IF IsNaN(v) THEN NaN
  ELSE Sign(v) * (((Abs(v) + F32STEP \div 2) \div F32STEP) * F32STEP)

\* Math.max(0, Math.min(1, v))
Clamp01(v) == Max(0, Min(SCALE, v))

\* ------------------------------------------------------------------------
\* 32-bit integer arithmetic of the hashes: a word is <<high 16 bits, low 16 bits>>
\* ------------------------------------------------------------------------

W16 == 65536

\* ToInt32 of the integer n: n modulo 2^32 (two's complement for n < 0)
Word(n) ==
  IF n >= 0 THEN <<n \div W16, n % W16>>
  ELSE LET m == -n - 1
       IN  <<(W16 - 1) - (m \div W16), (W16 - 1) - (m % W16)>>

\* the 32-bit product of two 16-bit values
Mul16(a, b) ==
  LET p0 == (a % 256) * b
      p1 == (a \div 256) * b
      low == p0 + (p1 % 256) * 256
  IN  <<(p1 \div 256 + low \div W16) % W16, low % W16>>

\* Math.imul, and the low 32 bits of an exact integer product
MulW(a, b) ==
  LET ll == Mul16(a[2], b[2])
      lh == Mul16(a[2], b[1])
      hl == Mul16(a[1], b[2])
  IN  <<(ll[1] + lh[2] + hl[2]) % W16, ll[2]>>

AddW(a, b) ==
  LET low == a[2] + b[2]
  IN  <<(a[1] + b[1] + low \div W16) % W16, low % W16>>

RECURSIVE Xor16(_, _, _)
Xor16(a, b, bits) ==
  IF bits = 0 THEN 0
  ELSE ((a + b) % 2) + 2 * Xor16(a \div 2, b \div 2, bits - 1)

XorW(a, b) == <<Xor16(a[1], b[1], 16), Xor16(a[2], b[2], 16)>>

\* w >>> 13
Shr13(w) == <<w[1] \div 8192, (w[1] % 8192) * 8 + w[2] \div 8192>>

\* w >>> 16
Shr16(w) == <<0, w[1]>>

\* (w >>> 0) / 4294967296 as a fixed-point value in [0, 1)
WordToUnit(w) == (w[1] * SCALE) \div W16

\* the two mixing steps both hashes share
Mix(h0) ==
  LET h1 == MulW(XorW(h0, Shr13(h0)), Word(1274126177))
  IN  XorW(h1, Shr16(h1))

\* ------------------------------------------------------------------------
\* Values shared by the pipeline
\* ------------------------------------------------------------------------

\* an optional field: <<>> when absent (undefined), <<v>> when it holds v
Absent == <<>>

Some(v) == <<v>>

\* o ?? d, and a destructuring default
OrElse(o, d) == IF o = Absent THEN d ELSE o[1]

\* no exception, no mode
NoValue == "undefined"

\* element i of a JavaScript array (indices from 0)
At(arr, i) == arr[i + 1]

\* Math.cos(angle * Math.PI / 180) for the screen angles in use
Cos(angle) ==
  CASE angle = 0 -> 10000
    [] angle = 15 -> 9659
    [] angle = 30 -> 8660
    [] angle = 45 -> 7071
    [] angle = 60 -> 5000
    [] angle = 75 -> 2588
    [] angle = 90 -> 0
    [] angle = 105 -> -2588

\* Math.sin(angle * Math.PI / 180) for the screen angles in use
Sin(angle) ==
  CASE angle = 0 -> 0
    [] angle = 15 -> 2588
    [] angle = 30 -> 5000
    [] angle = 45 -> 7071
    [] angle = 60 -> 8660
    [] angle = 75 -> 9659
    [] angle = 90 -> 10000
    [] angle = 105 -> 9659

\* hexToRgb of "#RRGGBB": the color string is its six hexadecimal digits
hexToRgb(hex) ==
  [r |-> 16 * hex[1] + hex[2], g |-> 16 * hex[3] + hex[4], b |-> 16 * hex[5] + hex[6]]

\* ------------------------------------------------------------------------
\* halftone.ts
\* ------------------------------------------------------------------------

\* halftoneAt: the opacity of pixel (x, y) under an AM screen
halftoneAt(x, y, density, options) ==
  LET dotSize == options.dotSize
      cos == Cos(options.angle)
      sin == Sin(options.angle)
      rx == x * cos + y * sin
      ry == -x * sin + y * cos
      cellX == Mod1(Div(rx, FromInt(dotSize)))
      cellY == Mod1(Div(ry, FromInt(dotSize)))
      cx == cellX - FromInt(Round(cellX))
      cy == cellY - FromInt(Round(cellY))
      dist == Sqrt(Mul(cx, cx) + Mul(cy, cy))
      scale == OrElse(options.density, SCALE)
      scaled == Min(Mul(density, scale), SCALE)
      radius == Mul(Sqrt(scaled), SCALE \div 2)
      edge == Div(SCALE \div 2, FromInt(dotSize))
  IN  \* a zero pitch: rx / 0 is NaN or an infinity, % 1 of either is NaN, both
      \* comparisons with NaN are false and the ramp's value is NaN
      IF dotSize = 0 THEN NaN
      ELSE IF dist < radius - edge THEN SCALE
      ELSE IF dist > radius + edge THEN 0
      ELSE SCALE - Div(dist - (radius - edge), 2 * edge)

\* cellHash: the threshold in [0, 1) of cell (x, y)
cellHash(x, y) ==
  WordToUnit(Mix(AddW(MulW(Word(x), Word(374761393)),
                      MulW(Word(y), Word(668265263)))))

\* the contribution of the dot of cell (cx, cy) to the pixel at rotated (rx, ry):
\* the body of the two inner loops of applyFMHalftone (0 where it continues)
FMDotOpacity(densityMap, width, height, options, rx, ry, cx, cy) ==
  LET dotSize == options.dotSize
      scale == OrElse(options.density, SCALE)
      cos == Cos(options.angle)
      sin == Sin(options.angle)
      cellSize == dotSize
      dotRadius == (dotSize * SCALE) \div 2
      edge == Max(SCALE \div 2, Div(SCALE \div 2, FromInt(dotSize)))
      dotRx == (2 * cx + 1) * cellSize * (SCALE \div 2)
      dotRy == (2 * cy + 1) * cellSize * (SCALE \div 2)
      distX == rx - dotRx
      distY == ry - dotRy
      dist == Sqrt(Mul(distX, distX) + Mul(distY, distY))
      imgX == Round(Mul(dotRx, cos) - Mul(dotRy, sin))
      imgY == Round(Mul(dotRx, sin) + Mul(dotRy, cos))
      d0 == IF imgX >= 0 /\ imgX < width /\ imgY >= 0 /\ imgY < height
            THEN At(densityMap, imgY * width + imgX)
            ELSE 0
      d == Min(Mul(d0, scale), SCALE)
      threshold == cellHash(cx, cy)
  IN  IF dist > dotRadius + edge THEN 0
      ELSE IF d <= threshold THEN 0
      ELSE IF dist < dotRadius - edge THEN SCALE
      ELSE SCALE - Div(dist - (dotRadius - edge), 2 * edge)

\* the greatest element of a non-empty finite set of numbers
MaxOf(S) == CHOOSE m \in S : \A v \in S : v <= m

\* applyFMHalftone: the opacity map of a density map under an FM screen
applyFMHalftone(densityMap, width, height, options) ==
  LET dotSize == options.dotSize
      cos == Cos(options.angle)
      sin == Sin(options.angle)
      cellSize == dotSize
      pixel(idx) ==
        LET x == idx % width
            y == idx \div width
            rx == x * cos + y * sin
            ry == -x * sin + y * cos
            gx == Floor(Div(rx, FromInt(cellSize)))
            gy == Floor(Div(ry, FromInt(cellSize)))
            maxOpacity ==
              MaxOf({0} \cup
                    { FMDotOpacity(densityMap, width, height, options,
                                   rx, ry, gx + dx, gy + dy) :
                      dx \in -1 .. 1, dy \in -1 .. 1 })
        IN  \* a zero pitch: every cell coordinate is NaN or an infinity, the
            \* sampled density is 0, cellHash of them is 0, and d <= threshold
            \* skips every cell
            IF dotSize = 0 THEN 0 ELSE Fround(maxOpacity)
  IN  [i \in 1 .. width * height |-> pixel(i - 1)]

\* a faulty variant: AM synthesis at the configured pitch itself
amOptionsSamePitch(options) == options

\* the options AM synthesis runs with: the pitch is one pixel more
amOptions(options) == [options EXCEPT !.dotSize = options.dotSize + 1]

\* applyHalftone: the opacity map of a density map, by the mode of the options
applyHalftone(densityMap, width, height, options) ==
  IF options.mode = "fm"
  THEN applyFMHalftone(densityMap, width, height, options)
  ELSE [i \in 1 .. width * height |->
          Fround(halftoneAt((i - 1) % width, (i - 1) \div width,
                            At(densityMap, i - 1), amOptions(options)))]

\* ------------------------------------------------------------------------
\* risograph.ts: scuff noise
\* ------------------------------------------------------------------------

\* scuffHash: the value in [0, 1) of lattice point (x, y) under a seed
scuffHash(x, y, seed) ==
  WordToUnit(Mix(AddW(AddW(MulW(Word(x), Word(374761393)),
                           MulW(Word(y), Word(668265263))),
                      MulW(Word(seed), Word(1013904223)))))

\* smoothNoise: the four lattice values around (x, y), smoothstep-interpolated
smoothNoise(x, y, cellSize, seed) ==
  LET qx == Ratio(x, cellSize)
      qy == Ratio(y, cellSize)
      gx == Floor(qx)
      gy == Floor(qy)
      fx == qx - FromInt(gx)
      fy == qy - FromInt(gy)
      n00 == scuffHash(gx, gy, seed)
      n10 == scuffHash(gx + 1, gy, seed)
      n01 == scuffHash(gx, gy + 1, seed)
      n11 == scuffHash(gx + 1, gy + 1, seed)
      sx == Mul(Mul(fx, fx), 3 * SCALE - 2 * fx)
      sy == Mul(Mul(fy, fy), 3 * SCALE - 2 * fy)
  IN  Mul(Mul(n00, SCALE - sx) + Mul(n10, sx), SCALE - sy)
      + Mul(Mul(n01, SCALE - sx) + Mul(n11, sx), sy)

\* ------------------------------------------------------------------------
\* risograph.ts: color decomposition
\* ------------------------------------------------------------------------

DEFAULT_ANGLES == <<15, 75, 0, 45, 30, 60, 90, 105>>

DEFAULT_PAPER == [r |-> 245, g |-> 240, b |-> 232]

WHITE == [r |-> 255, g |-> 255, b |-> 255]

MAX_ITER == 12

\* a typed array as a sequence whose elements are computed once
Array(f) == f \o <<>>

\* inkDeltas: the absorption vector of each ink, (paper - ink) / 255 per channel
inkDeltasOf(inkRgbs, paper) ==
  Array([i \in 1 .. Len(inkRgbs) |->
           <<Ratio(paper.r - inkRgbs[i].r, 255), Ratio(paper.g - inkRgbs[i].g, 255),
             Ratio(paper.b - inkRgbs[i].b, 255)>>])

Dot3(u, v) == Mul(u[1], v[1]) + Mul(u[2], v[2]) + Mul(u[3], v[3])

\* dotInkInk: the dot product of every pair of absorption vectors
dotInkInkOf(inkDeltas) ==
  Array([i \in 1 .. Len(inkDeltas) |->
           Array([j \in 1 .. Len(inkDeltas) |-> Dot3(inkDeltas[i], inkDeltas[j])])])

\* data[off + 3] / 255 of pixel p
pixelAlpha(data, p) == Ratio(At(data, 4 * p + 3), 255)

\* target = (paper - pixel) / 255 * alpha of pixel p
pixelTarget(data, p, paper) ==
  LET alpha == pixelAlpha(data, p)
  IN  <<Mul(Ratio(paper.r - At(data, 4 * p), 255), alpha),
        Mul(Ratio(paper.g - At(data, 4 * p + 1), 255), alpha),
        Mul(Ratio(paper.b - At(data, 4 * p + 2), 255), alpha)>>

\* dotInkTarget: the dot product of each absorption vector with the target
dotInkTargetOf(inkDeltas, target) ==
  Array([i \in 1 .. Len(inkDeltas) |-> Dot3(inkDeltas[i], target)])

\* a faulty variant: the quotient is kept from going negative only
guardedProjectionNoCeiling(numerator, selfDot) ==
  IF selfDot > 0 THEN Max(0, Div(numerator, selfDot)) ELSE 0

\* selfDot > 1e-10 ? Math.max(0, Math.min(1, numerator / selfDot)) : 0
guardedProjection(numerator, selfDot) ==
  IF selfDot > 0 THEN Clamp01(Div(numerator, selfDot)) ELSE 0

\* lines 146-152: the initial densities, the projection on each ink alone
initialDensities(dotInkTarget, dotInkInk) ==
  Array([i \in 1 .. Len(dotInkTarget) |->
           guardedProjection(dotInkTarget[i], dotInkInk[i][i])])

\* a faulty variant: the sum takes the ink's own term too
RECURSIVE crossTermsAll(_, _, _, _)
crossTermsAll(densities, dotInkInk, i, j) ==
  IF j > Len(densities) THEN 0
  ELSE Mul(densities[j], dotInkInk[i][j])
       + crossTermsAll(densities, dotInkInk, i, j + 1)

\* lines 158-160: the sum over j # i of densities[j] * dotInkInk[i * n + j]
RECURSIVE crossTerms(_, _, _, _)
crossTerms(densities, dotInkInk, i, j) ==
  IF j > Len(densities) THEN 0
  ELSE (IF j # i THEN Mul(densities[j], dotInkInk[i][j]) ELSE 0)
       + crossTerms(densities, dotInkInk, i, j + 1)

\* lines 157-165: densities[i] from the latest values of the others
updateDensity(densities, dotInkTarget, dotInkInk, i) ==
  [densities EXCEPT ![i] =
     guardedProjection(dotInkTarget[i] - crossTerms(densities, dotInkInk, i, 1),
                       dotInkInk[i][i])]

\* line 156: one sweep of coordinate descent over inks i, i + 1, ...
RECURSIVE sweep(_, _, _, _)
sweep(densities, dotInkTarget, dotInkInk, i) ==
  IF i > Len(densities) THEN densities
  ELSE sweep(updateDensity(densities, dotInkTarget, dotInkInk, i),
             dotInkTarget, dotInkInk, i + 1)

\* line 155: the densities after iter sweeps
RECURSIVE densitiesAfter(_, _, _)
densitiesAfter(iter, dotInkTarget, dotInkInk) ==
  IF iter = 0 THEN initialDensities(dotInkTarget, dotInkInk)
  ELSE sweep(densitiesAfter(iter - 1, dotInkTarget, dotInkInk),
             dotInkTarget, dotInkInk, 1)

\* lines 123-171: the densities of pixel p after iter sweeps, 0 for every
\* ink under the alpha cut
pixelDensities(iter, data, p, inkDeltas, dotInkInk, paper) ==
  IF pixelAlpha(data, p) < SCALE \div 100
  THEN [i \in 1 .. Len(inkDeltas) |-> 0]
  ELSE densitiesAfter(iter, dotInkTargetOf(inkDeltas, pixelTarget(data, p, paper)),
                      dotInkInk)

\* decomposeColors: one Float32Array density map per ink
decomposeColors(imageData, inkRgbs, paper) ==
  LET pixelCount == imageData.width * imageData.height
      inkDeltas == inkDeltasOf(inkRgbs, paper)
      dotInkInk == dotInkInkOf(inkDeltas)
      densities == Array([q \in 1 .. pixelCount |->
                     pixelDensities(MAX_ITER, imageData.data, q - 1, inkDeltas,
                                    dotInkInk, paper)])
  IN  [i \in 1 .. Len(inkRgbs) |->
         [q \in 1 .. pixelCount |-> Fround(densities[q][i])]]

\* ------------------------------------------------------------------------
\* risograph.ts: processRisograph, one action per block of the function
\* ------------------------------------------------------------------------

VARIABLES
  sourceData,   \* the ImageData argument: [width, height, data]
  options,      \* the RisographOptions argument
  canvas,       \* the canvas element: [width, height, data]
  pc,           \* where processRisograph stands
  error,        \* the exception that ended the call, or NoValue
  densityMaps,  \* decomposeColors' result, <<>> before it ran
  out,          \* outputData.data, <<>> before createImageData
  ci,           \* index of the ink layer in work (from 0)
  halftoneMap,  \* the opacity map of layer ci, <<>> between layers
  offset,       \* <<ox, oy>> of the layer composited last
  rng,          \* Math.random()'s next value: <<>> until the first call
  renders,      \* calls of processRisograph started so far
  history       \* the bitmaps the finished calls have put on the canvas

\* two layers composited onto one byte in both orders
VARIABLES
  prevByte,     \* the byte before the two layers
  layerA,       \* [opacity, inkChannel] of one layer
  layerB,       \* [opacity, inkChannel] of the other
  afterAB,      \* the byte after A then B, <<>> before that was done
  afterBA       \* the byte after B then A, <<>> before that was done

\* RisographCanvas: the effect that schedules processRisograph
VARIABLES
  params,       \* how often the parameters (or the image data) have changed
  now,          \* Date.now()
  lastRunRef,   \* lastRunRef.current
  pendingRef,   \* the pending timeout: <<>> or <<[due, params]>>
  frames,       \* the callbacks queued by requestAnimationFrame, by params
  executed      \* the calls of processRisograph: [params, current]

pipelineVars ==
  <<sourceData, options, canvas, pc, error, densityMaps, out, ci,
    halftoneMap, offset, rng, renders, history>>

orderVars == <<prevByte, layerA, layerB, afterAB, afterBA>>

scheduleVars == <<params, now, lastRunRef, pendingRef, frames, executed>>

vars == <<pipelineVars, orderVars, scheduleVars>>

\* the destructured options with their defaults (line 189)
inkOpacityOf(opts) == OrElse(opts.inkOpacity, 8500)

noiseOf(opts) == OrElse(opts.noise, 0)

paperOf(opts) ==
  IF opts.paperColor = Absent THEN DEFAULT_PAPER ELSE hexToRgb(opts.paperColor[1])

inkRgbsOf(opts) == [i \in 1 .. Len(opts.colors) |-> hexToRgb(opts.colors[i].color)]

\* colors[ci].angle ?? DEFAULT_ANGLES[ci % DEFAULT_ANGLES.length]
angleOf(opts, k) ==
  OrElse(At(opts.colors, k).angle, At(DEFAULT_ANGLES, k % Len(DEFAULT_ANGLES)))

\* the HalftoneOptions of layer k (lines 223-228)
halftoneOptions(opts, k) ==
  [dotSize |-> opts.dotSize, angle |-> angleOf(opts, k),
   density |-> opts.density, mode |-> opts.halftoneMode]

\* lines 189-196: the canvas takes the size of the source (which clears it)
Begin ==
  /\ pc = "start"
  /\ canvas' = [width |-> sourceData.width, height |-> sourceData.height,
                data |-> <<>>]
  /\ pc' = "resized"
  /\ UNCHANGED <<sourceData, options, error, densityMaps, out, ci,
                 halftoneMap, offset, rng, renders, history>>
  /\ UNCHANGED <<orderVars, scheduleVars>>

\* lines 199-203: the inks' RGB and the density maps, always against WHITE
Decompose ==
  /\ pc = "resized"
  /\ densityMaps' = decomposeColors(sourceData, inkRgbsOf(options), WHITE)
  /\ pc' = "decomposed"
  /\ UNCHANGED <<sourceData, options, canvas, error, out, ci, halftoneMap,
                 offset, rng, renders, history>>
  /\ UNCHANGED <<orderVars, scheduleVars>>

\* a faulty variant: the paper's channels stored blue first
paperBufferSwapped(width, height, paper) ==
  [k \in 1 .. 4 * width * height |->
     CASE k % 4 = 1 -> paper.b
       [] k % 4 = 2 -> paper.g
       [] k % 4 = 3 -> paper.r
       [] OTHER -> 255]

\* a faulty variant: the alpha bytes keep createImageData's 0
paperBufferNoAlpha(width, height, paper) ==
  [k \in 1 .. 4 * width * height |->
     CASE k % 4 = 1 -> paper.r
       [] k % 4 = 2 -> paper.g
       [] k % 4 = 3 -> paper.b
       [] OTHER -> 0]

\* the paper-colored buffer of lines 206-214
paperBuffer(width, height, paper) ==
  [k \in 1 .. 4 * width * height |->
     CASE k % 4 = 1 -> paper.r
       [] k % 4 = 2 -> paper.g
       [] k % 4 = 3 -> paper.b
       [] OTHER -> 255]

\* lines 206-214: createImageData (which throws IndexSizeError for a zero
\* width or height), then the buffer is filled with the paper color
InitPaper ==
  /\ pc = "decomposed"
  /\ IF sourceData.width = 0 \/ sourceData.height = 0
     THEN /\ pc' = "threw"
          /\ error' = "IndexSizeError"
          /\ out' = out
     ELSE /\ pc' = "layers"
          /\ error' = error
          /\ out' = paperBuffer(sourceData.width, sourceData.height,
                                paperOf(options))
  /\ ci' = 0
  /\ UNCHANGED <<sourceData, options, canvas, densityMaps, halftoneMap,
                 offset, rng, renders, history>>
  /\ UNCHANGED <<orderVars, scheduleVars>>

\* lines 217-228: the opacity map of layer ci
Halftone ==
  /\ pc = "layers"
  /\ ci < Len(options.colors)
  /\ halftoneMap' = applyHalftone(At(densityMaps, ci), sourceData.width,
                                  sourceData.height, halftoneOptions(options, ci))
  /\ pc' = "halftoned"
  /\ UNCHANGED <<sourceData, options, canvas, error, densityMaps, out, ci,
                 offset, rng, renders, history>>
  /\ UNCHANGED <<orderVars, scheduleVars>>

\* a faulty variant: the seed moves on with every call after the first
scuffSeedPerCall(k) == k * 7919 + 31 + (renders - 1)

\* the seed of the scuff noise of layer k (line 233)
scuffSeed(k) == k * 7919 + 31

\* a faulty variant: the lattice follows the AM pitch, one pixel more
scuffSizeAmPitch(dotSize) == Max((dotSize + 1) * 3, 6)

\* the lattice size of the scuff noise (line 232)
scuffSize(dotSize) == Max(dotSize * 3, 6)

\* lines 234-242 for element i of the map: zeroed when the noise is under the
\* threshold, unless the element is under 0.004 (a NaN element is not)
scuffed(map, i, width, dotSize, noise, k) ==
  IF ~IsNaN(At(map, i)) /\ At(map, i) < 40 THEN At(map, i)
  ELSE IF smoothNoise(i % width, i \div width, scuffSize(dotSize), scuffSeed(k))
            < noise
       THEN 0
       ELSE At(map, i)

\* lines 230-243: the scuff mask of layer ci
Scuff ==
  /\ pc = "halftoned"
  /\ halftoneMap' =
       IF noiseOf(options) > 0
       THEN [i \in 1 .. Len(halftoneMap) |->
               scuffed(halftoneMap, i - 1, sourceData.width, options.dotSize,
                       noiseOf(options), ci)]
       ELSE halftoneMap
  /\ pc' = "scuffed"
  /\ UNCHANGED <<sourceData, options, canvas, error, densityMaps, out, ci,
                 offset, rng, renders, history>>
  /\ UNCHANGED <<orderVars, scheduleVars>>

\* Math.random(): a generator whose state is unknown until its first call
\* and whose calls return its values in turn
RandomValues == {0, 2500, 5000, 7500}

\* the value that follows value r
randomNext(r) == (r + 7500) % SCALE

\* the k-th value after value r
RECURSIVE randomAfter(_, _)
randomAfter(r, k) ==
  IF k = 0 THEN r ELSE randomAfter(randomNext(r), k - 1)

\* lines 246-253: Math.round((Math.random() - 0.5) * 2 * misregistration)
registrationOffset(misregistration, r) ==
  IF misregistration > 0 THEN Round(Mul(2 * (r - SCALE \div 2), misregistration))
  ELSE 0

\* a faulty variant: only the flat index of the source position is tested
inBoundsFlat(x, y, ox, oy, width, height) ==
  /\ (y - oy) * width + (x - ox) >= 0
  /\ (y - oy) * width + (x - ox) < width * height

\* line 260: the source position of pixel (x, y) is inside the map
inBounds(x, y, ox, oy, width, height) ==
  /\ x - ox >= 0
  /\ x - ox < width
  /\ y - oy >= 0
  /\ y - oy < height

\* lines 262-270: the opacity pixel q (row-major) composites with; r0 is the
\* first grain draw of the layer, one draw per pixel that is in bounds
layerOpacity(map, q, ox, oy, width, height, grain, r0) ==
  LET x == q % width
      y == q \div width
      opacity == At(map, (y - oy) * width + (x - ox))
      drawn == Cardinality({k \in 0 .. q - 1 :
                  inBounds(k % width, k \div width, ox, oy, width, height)})
  IN  IF grain > 0 /\ ~IsNaN(opacity)
      THEN Clamp01(opacity
                   + Mul(randomAfter(r0, drawn) - SCALE \div 2, grain))
      ELSE opacity

\* a store into the Uint8ClampedArray: clamped to 0 .. 255
toUint8Clamped(v) == Max(0, Min(255, v))

\* a faulty variant: the absorption is added to the transmittance
blendBrightening(prev, opacity, f, inkChannel) ==
  IF IsNaN(opacity) THEN 0
  ELSE LET t == SCALE + Mul(Mul(opacity, f), SCALE - Ratio(inkChannel, 255))
       IN  toUint8Clamped((prev * t + SCALE \div 2) \div SCALE)

\* a faulty variant: the product is truncated, not rounded
blendTruncating(prev, opacity, f, inkChannel) ==
  IF IsNaN(opacity) THEN 0
  ELSE LET t == SCALE - Mul(Mul(opacity, f), SCALE - Ratio(inkChannel, 255))
       IN  toUint8Clamped((prev * t) \div SCALE)

\* lines 287-293 for one channel: Math.round(prev * transmittance), stored
blend(prev, opacity, f, inkChannel) ==
  IF IsNaN(opacity) THEN 0
  ELSE LET t == SCALE - Mul(Mul(opacity, f), SCALE - Ratio(inkChannel, 255))
       IN  toUint8Clamped((prev * t + SCALE \div 2) \div SCALE)

\* lines 255-295: the buffer after layer k is composited onto buffer prev
compositeLayer(prev, map, rgb, ox, oy, width, height, grain, inkOpacity, r0) ==
  [k \in 1 .. Len(prev) |->
     LET q == (k - 1) \div 4
         c == (k - 1) % 4
         x == q % width
         y == q \div width
         opacity == layerOpacity(map, q, ox, oy, width, height, grain, r0)
     IN  IF c = 3 THEN prev[k]
         ELSE IF ~inBounds(x, y, ox, oy, width, height) THEN prev[k]
         ELSE IF ~IsNaN(opacity) /\ opacity < 40 THEN prev[k]
         ELSE blend(prev[k], opacity, inkOpacity,
                    CASE c = 0 -> rgb.r [] c = 1 -> rgb.g [] OTHER -> rgb.b)]

\* the Math.random() calls of one layer: two for the offset when
\* misregistration > 0, one per pixel in bounds when grain > 0
layerDraws(opts, ox, oy, width, height) ==
  (IF opts.misregistration > 0 THEN 2 ELSE 0)
  + (IF opts.grain > 0
     THEN Cardinality({q \in 0 .. width * height - 1 :
            inBounds(q % width, q \div width, ox, oy, width, height)})
     ELSE 0)

\* lines 245-296: registration offset, grain and blend of layer ci
Composite ==
  /\ pc = "scuffed"
  /\ \E r \in (IF rng = Absent THEN RandomValues ELSE {rng[1]}) :
       LET m == options.misregistration
           ox == registrationOffset(m, r)
           oy == registrationOffset(m, randomNext(r))
           r0 == IF m > 0 THEN randomAfter(r, 2) ELSE r
           drawn == layerDraws(options, ox, oy, sourceData.width,
                               sourceData.height)
       IN  /\ out' = compositeLayer(out, halftoneMap,
                                    At(inkRgbsOf(options), ci), ox, oy,
                                    sourceData.width, sourceData.height,
                                    options.grain, inkOpacityOf(options), r0)
           /\ offset' = <<ox, oy>>
           /\ rng' = IF drawn = 0 THEN rng ELSE Some(randomAfter(r, drawn))
  /\ ci' = ci + 1
  /\ halftoneMap' = <<>>
  /\ pc' = "layers"
  /\ UNCHANGED <<sourceData, options, canvas, error, densityMaps, renders,
                 history>>
  /\ UNCHANGED <<orderVars, scheduleVars>>

\* line 298: putImageData
Put ==
  /\ pc = "layers"
  /\ ci >= Len(options.colors)
  /\ canvas' = [canvas EXCEPT !.data = out]
  /\ history' = Append(history, out)
  /\ pc' = "done"
  /\ UNCHANGED <<sourceData, options, error, densityMaps, out, ci,
                 halftoneMap, offset, rng, renders>>
  /\ UNCHANGED <<orderVars, scheduleVars>>

\* the caller invokes processRisograph again with the same arguments
Rerender ==
  /\ pc \in {"done", "threw"}
  /\ renders < MaxRenders
  /\ renders' = renders + 1
  /\ pc' = "start"
  /\ error' = NoValue
  /\ densityMaps' = <<>>
  /\ out' = <<>>
  /\ ci' = 0
  /\ halftoneMap' = <<>>
  /\ UNCHANGED <<sourceData, options, canvas, offset, rng, history>>
  /\ UNCHANGED <<orderVars, scheduleVars>>

\* ------------------------------------------------------------------------
\* The arguments the model draws
\* ------------------------------------------------------------------------

\* RGBA pixels: opaque white, opaque black, an opaque blue, a translucent
\* red, and a pixel under the alpha cut (alpha 2 / 255 < 0.01)
PxWhite == <<255, 255, 255, 255>>

PxBlack == <<0, 0, 0, 255>>

PxBlue == <<51, 102, 204, 255>>

PxRed == <<204, 51, 51, 153>>

PxClear == <<0, 0, 0, 2>>

\* the pixels a bitmap is filled with, taken in turn
Fills == { <<PxWhite>>, <<PxBlack, PxRed, PxClear, PxBlue>> }

\* the ImageData of a size filled with the pixels of fill in turn
imageOf(width, height, fill) ==
  [width |-> width, height |-> height,
   data |-> [k \in 1 .. 4 * width * height |->
               At(fill, ((k - 1) \div 4) % Len(fill))[((k - 1) % 4) + 1]]]

Bitmaps ==
  { imageOf(w, h, fill) : w \in {0, MaxWidth}, h \in {0, MaxHeight}, fill \in Fills }

\* "#00ffff", "#6699ff" and "#ffffff" as hexadecimal digits
HexCyan == <<0, 0, 15, 15, 15, 15>>

HexBlue == <<6, 6, 9, 9, 15, 15>>

HexWhite == <<15, 15, 15, 15, 15, 15>>

\* cyan, a weakly absorbing blue with a screen angle of its own, and an
\* ink of the color of the reference white
Inks ==
  { [name |-> "cyan", color |-> HexCyan, angle |-> Absent],
    [name |-> "blue", color |-> HexBlue, angle |-> Some(45)],
    [name |-> "white", color |-> HexWhite, angle |-> Absent] }

\* the ink lists of at most MaxInks inks, duplicates included
InkLists == UNION { [1 .. n -> Inks] : n \in 0 .. MaxInks }

OptionSets ==
  [colors : InkLists,
   dotSize : {-1, 0, 2},
   misregistration : {0, SCALE},
   grain : {0, 1000},
   density : {Absent},
   inkOpacity : {Absent},
   paperColor : {Absent, Some(HexWhite)},
   halftoneMode : {NoValue, "fm"},
   noise : {Absent, Some(1000)}]

\* ------------------------------------------------------------------------
\* risograph.ts: two layers composited onto one byte, in both orders
\* ------------------------------------------------------------------------

\* no pair of layers is on trial
OrderIdle ==
  /\ prevByte = 0
  /\ layerA = Absent
  /\ layerB = Absent
  /\ afterAB = Absent
  /\ afterBA = Absent

\* lines 287-293 for one channel of one pixel: the byte after a layer, at
\* the default ink opacity
compositeByte(prev, layer) ==
  blend(prev, layer.opacity, inkOpacityOf([inkOpacity |-> Absent]), layer.inkChannel)

\* layer A is composited, then layer B
CompositeAB ==
  /\ layerA # Absent
  /\ afterAB = Absent
  /\ afterAB' = Some(compositeByte(compositeByte(prevByte, layerA), layerB))
  /\ UNCHANGED <<prevByte, layerA, layerB, afterBA>>
  /\ UNCHANGED <<pipelineVars, scheduleVars>>

\* layer B is composited, then layer A
CompositeBA ==
  /\ layerA # Absent
  /\ afterBA = Absent
  /\ afterBA' = Some(compositeByte(compositeByte(prevByte, layerB), layerA))
  /\ UNCHANGED <<prevByte, layerA, layerB, afterAB>>
  /\ UNCHANGED <<pipelineVars, scheduleVars>>

\* ------------------------------------------------------------------------
\* RisographCanvas.tsx: the throttled scheduling of processRisograph
\* ------------------------------------------------------------------------

MaxChanges == 3

MaxTicks == 4

THROTTLE_MS == 400

\* the component before its image data arrives: nothing scheduled,
\* lastRunRef 0 and a clock far from it
ScheduleIdle ==
  /\ params = 0
  /\ now = THROTTLE_MS
  /\ lastRunRef = 0
  /\ pendingRef = Absent
  /\ frames = <<>>
  /\ executed = <<>>

\* runProcess of the render with parameters v (lines 119-140): its callback,
\* which closes over those parameters, is queued for the next frame
runProcess(queue, v) == Append(queue, v)

\* the parameters or the image data change: the cleanup of the previous
\* effect clears the pending timeout, then the effect of the new render runs
\* (lines 142-167); pendingRef stands for the timeout that is still to fire
ChangeParams ==
  /\ params < MaxChanges
  /\ params' = params + 1
  /\ LET elapsed == now - lastRunRef
     IN  IF elapsed >= THROTTLE_MS
         THEN /\ frames' = runProcess(frames, params')
              /\ pendingRef' = Absent
         ELSE /\ frames' = frames
              /\ pendingRef' = Some([due |-> now + (THROTTLE_MS - elapsed),
                                     params |-> params'])
  /\ UNCHANGED <<now, lastRunRef, executed>>
  /\ UNCHANGED <<pipelineVars, orderVars>>

\* the pending timeout fires (lines 156-159)
TimerFires ==
  /\ pendingRef # Absent
  /\ now >= pendingRef[1].due
  /\ frames' = runProcess(frames, pendingRef[1].params)
  /\ pendingRef' = Absent
  /\ UNCHANGED <<params, now, lastRunRef, executed>>
  /\ UNCHANGED <<pipelineVars, orderVars>>

\* an animation frame: every queued callback runs in turn, each calls
\* processRisograph with the parameters it closed over and sets lastRunRef
\* (lines 125-139)
AnimationFrame ==
  /\ frames # <<>>
  /\ executed' = executed \o [i \in 1 .. Len(frames) |->
                               [params |-> frames[i], current |-> params]]
  /\ frames' = <<>>
  /\ lastRunRef' = now
  /\ UNCHANGED <<params, now, pendingRef>>
  /\ UNCHANGED <<pipelineVars, orderVars>>

\* time passes
Tick ==
  /\ now < THROTTLE_MS + MaxTicks * (THROTTLE_MS \div 2)
  /\ now' = now + THROTTLE_MS \div 2
  /\ UNCHANGED <<params, lastRunRef, pendingRef, frames, executed>>
  /\ UNCHANGED <<pipelineVars, orderVars>>

\* ------------------------------------------------------------------------
\* The specifications
\* ------------------------------------------------------------------------

Init ==
  /\ sourceData \in Bitmaps
  /\ options \in OptionSets
  /\ canvas = [width |-> 300, height |-> 150, data |-> <<>>]
  /\ pc = "start"
  /\ error = NoValue
  /\ densityMaps = <<>>
  /\ out = <<>>
  /\ ci = 0
  /\ halftoneMap = <<>>
  /\ offset = <<0, 0>>
  /\ rng = Absent
  /\ renders = 1
  /\ history = <<>>
  /\ OrderIdle
  /\ ScheduleIdle

Next ==
  \/ Begin
  \/ Decompose
  \/ InitPaper
  \/ Halftone
  \/ Scuff
  \/ Composite
  \/ Put

Spec == Init /\ [][Next]_vars

\* the same, with the call repeated
NextRepeat ==
  \/ Next
  \/ Rerender

SpecRepeat == Init /\ [][NextRepeat]_vars

\* no call of processRisograph is in progress
PipelineIdle ==
  /\ sourceData = imageOf(0, 0, <<PxWhite>>)
  /\ options = [colors |-> <<>>, dotSize |-> 2, misregistration |-> 0,
                grain |-> 0, density |-> Absent, inkOpacity |-> Absent,
                paperColor |-> Absent, halftoneMode |-> NoValue,
                noise |-> Absent]
  /\ canvas = [width |-> 300, height |-> 150, data |-> <<>>]
  /\ pc = "idle"
  /\ error = NoValue
  /\ densityMaps = <<>>
  /\ out = <<>>
  /\ ci = 0
  /\ halftoneMap = <<>>
  /\ offset = <<0, 0>>
  /\ rng = Absent
  /\ renders = 0
  /\ history = <<>>

\* the bytes and the layers the two orders are tried on
Bytes == {255, 245, 240, 232}

Layers == [opacity : {2500, 5000, 7500, SCALE}, inkChannel : {0, 102, 153}]

InitOrder ==
  /\ PipelineIdle
  /\ ScheduleIdle
  /\ prevByte \in Bytes
  /\ layerA \in Layers
  /\ layerB \in Layers
  /\ afterAB = Absent
  /\ afterBA = Absent

NextOrder ==
  \/ CompositeAB
  \/ CompositeBA

SpecOrder == InitOrder /\ [][NextOrder]_vars

InitSchedule ==
  /\ PipelineIdle
  /\ OrderIdle
  /\ ScheduleIdle

NextSchedule ==
  \/ ChangeParams
  \/ TimerFires
  \/ AnimationFrame
  \/ Tick

SpecSchedule == InitSchedule /\ [][NextSchedule]_vars

\* ------------------------------------------------------------------------
\* Properties of the pipeline
\* ------------------------------------------------------------------------

\* the pixels of the source bitmap, row-major from 0
Pixels == 0 .. sourceData.width * sourceData.height - 1

\* the four bytes of pixel q of an RGBA buffer
pixelBytes(data, q) ==
  <<At(data, 4 * q), At(data, 4 * q + 1), At(data, 4 * q + 2), At(data, 4 * q + 3)>>

\* the opaque pixel of the paper color the options ask for
paperPixel == <<paperOf(options).r, paperOf(options).g, paperOf(options).b, 255>>

\* C1, as the specification states it: a bitmap that is white everywhere,
\* printed with one ink on white paper with no misregistration, grain or
\* scuff (and a positive dot size), leaves the paper color at every pixel of
\* the canvas, in AM and in FM mode.  The code does not: the AM screen gives
\* the pixels at its cell centres an opacity of 0.5 at density 0.
C1_WhiteBitmapStaysPaper ==
  (/\ pc = "done"
   /\ \A q \in Pixels : pixelBytes(sourceData.data, q) = PxWhite
   /\ Len(options.colors) = 1
   /\ options.paperColor = Some(HexWhite)
   /\ options.misregistration = 0
   /\ options.grain = 0
   /\ noiseOf(options) = 0
   /\ options.dotSize > 0)
  => \A q \in Pixels : pixelBytes(canvas.data, q) = <<255, 255, 255, 255>>

\* C2: with an empty ink list and a bitmap of positive area the call runs no
\* halftone, scuff or composite step, raises nothing, and puts on the canvas
\* the paper color with alpha 255 at every pixel of the bitmap.
C2_EmptyInkListDrawsPaper ==
  (/\ Len(options.colors) = 0
   /\ sourceData.width > 0
   /\ sourceData.height > 0)
  => /\ error = NoValue
     /\ pc \notin {"halftoned", "scuffed", "threw"}
     /\ pc = "done" =>
          /\ Len(canvas.data) = 4 * sourceData.width * sourceData.height
          /\ \A q \in Pixels : pixelBytes(canvas.data, q) = paperPixel

\* an empty ink list, a bitmap that is not white, the default paper, and
\* every effect turned on: the canvas shows the paper
C2_Witness ==
  /\ pc = "done"
  /\ options.colors = <<>>
  /\ sourceData.width = MaxWidth
  /\ sourceData.height = MaxHeight
  /\ pixelBytes(sourceData.data, 0) = PxBlack
  /\ options.paperColor = Absent
  /\ options.misregistration > 0
  /\ options.grain > 0
  /\ noiseOf(options) > 0
  /\ pixelBytes(canvas.data, 0) = <<245, 240, 232, 255>>

\* C3: the output buffer has four bytes for every pixel of the source and
\* alpha 255 in each, from the paper initialisation on and after every ink
\* layer; the canvas that receives it has the source's width and height.
C3_SizeAndOpaqueAlpha ==
  /\ out # <<>> =>
       /\ Len(out) = 4 * sourceData.width * sourceData.height
       /\ \A q \in Pixels : At(out, 4 * q + 3) = 255
  /\ pc = "done" =>
       /\ canvas.width = sourceData.width
       /\ canvas.height = sourceData.height
       /\ canvas.data = out

\* two layers composited with misregistration and grain, ink deposited
C3_Witness ==
  /\ pc = "done"
  /\ Len(options.colors) = 2
  /\ options.misregistration > 0
  /\ options.grain > 0
  /\ \E q \in Pixels : pixelBytes(canvas.data, q) # paperPixel
  /\ \A q \in Pixels : At(canvas.data, 4 * q + 3) = 255

\* C4, as the specification states it: for a bitmap whose width or height
\* is <= 0 the call fails with an Invalid-Input error before it does
\* anything: the canvas is not resized, nothing is decomposed, no buffer is
\* allocated or written.  The code validates nothing: it resizes the canvas
\* and decomposes, and only createImageData then throws.
C4_ZeroAreaFailsBeforeProcessing ==
  ((sourceData.width <= 0 \/ sourceData.height <= 0) /\ pc # "start")
  => /\ error = "InvalidInput"
     /\ canvas = [width |-> 300, height |-> 150, data |-> <<>>]
     /\ densityMaps = <<>>
     /\ out = <<>>

\* C5, as the specification states it: with a dot size <= 0 the call ends
\* in a Configuration error before any halftone synthesis, so no opacity
\* map is ever produced, in AM and in FM mode.  The code validates nothing:
\* it synthesises a map with the pitch it was given.
C5_NonPositivePitchFailsBeforeSynthesis ==
  options.dotSize <= 0
  => /\ halftoneMap = <<>>
     /\ pc \notin {"halftoned", "scuffed"}

\* the absorption vectors and their dot products for the inks of the options
inkDeltasNow == inkDeltasOf(inkRgbsOf(options), WHITE)

dotInkInkNow == dotInkInkOf(inkDeltasNow)

\* C6: every density is in [0, 1]: after the initial projection and after
\* each of the 12 sweeps for every pixel and ink, and in the maps
\* decomposeColors returns; a pixel whose alpha is under 0.01 has density 0
\* for every ink.  Duplicated inks and an ink of the reference white are
\* among the ink lists.
C6_DensitiesInUnitInterval ==
  /\ \A i \in 1 .. Len(densityMaps) : \A q \in Pixels :
       /\ At(densityMaps[i], q) >= 0
       /\ At(densityMaps[i], q) <= SCALE
       /\ pixelAlpha(sourceData.data, q) < SCALE \div 100
            => At(densityMaps[i], q) = 0
  /\ pc = "decomposed" =>
       \A q \in Pixels : \A iter \in 0 .. MAX_ITER :
         LET densities == pixelDensities(iter, sourceData.data, q, inkDeltasNow,
                                         dotInkInkNow, WHITE)
         IN  \A i \in 1 .. Len(options.colors) :
               densities[i] >= 0 /\ densities[i] <= SCALE

\* the same weak ink twice: a black pixel projects to 1.92 on it and is
\* clamped to 1, another pixel has a density strictly inside the interval,
\* and a pixel under the alpha cut has density 0
C6_Witness ==
  /\ pc = "decomposed"
  /\ Len(options.colors) = 2
  /\ options.colors[1] = options.colors[2]
  /\ options.colors[1].color = HexBlue
  /\ \E q \in Pixels :
       /\ pixelBytes(sourceData.data, q) = PxBlack
       /\ Div(Dot3(pixelTarget(sourceData.data, q, WHITE), inkDeltasNow[1]),
              dotInkInkNow[1][1]) > SCALE
       /\ At(densityMaps[2], q) = SCALE
  /\ \E q \in Pixels : \E i \in 1 .. 2 :
       At(densityMaps[i], q) > 0 /\ At(densityMaps[i], q) < SCALE
  /\ \E q \in Pixels :
       /\ pixelAlpha(sourceData.data, q) < SCALE \div 100
       /\ At(densityMaps[1], q) = 0

\* the direct projection of pixel q on the only ink, clamped to [0, 1]
directProjection(q) ==
  Clamp01(Div(Dot3(pixelTarget(sourceData.data, q, WHITE), inkDeltasNow[1]),
              dotInkInkNow[1][1]))

\* C7, as the specification states it: with a single ink (of nonzero
\* absorption) the density decomposeColors returns for a pixel (over the
\* alpha cut) equals the clamped direct projection.  The returned map is a
\* Float32Array: it holds the projection rounded to single precision.
C7_SingleInkDensityIsProjection ==
  (pc = "decomposed" /\ Len(options.colors) = 1 /\ dotInkInkNow[1][1] > 0)
  => \A q \in Pixels :
       pixelAlpha(sourceData.data, q) >= SCALE \div 100
       => At(densityMaps[1], q) = directProjection(q)

\* C7, amended: with a single ink of nonzero absorption and a pixel over the
\* alpha cut, the density equals the clamped direct projection after the
\* initial step and after each of the 12 sweeps, and the returned map holds
\* that projection rounded to single precision.
C7_SingleInkDensityIsRoundedProjection ==
  (pc = "decomposed" /\ Len(options.colors) = 1 /\ dotInkInkNow[1][1] > 0)
  => \A q \in Pixels :
       pixelAlpha(sourceData.data, q) >= SCALE \div 100
       => /\ \A iter \in 0 .. MAX_ITER :
               pixelDensities(iter, sourceData.data, q, inkDeltasNow,
                              dotInkInkNow, WHITE)[1] = directProjection(q)
          /\ At(densityMaps[1], q) = Fround(directProjection(q))

\* one weak ink and a pixel whose projection is strictly inside (0, 1) and
\* is changed by the rounding of the store
C7_Witness ==
  /\ pc = "decomposed"
  /\ Len(options.colors) = 1
  /\ dotInkInkNow[1][1] > 0
  /\ \E q \in Pixels :
       /\ pixelAlpha(sourceData.data, q) >= SCALE \div 100
       /\ directProjection(q) > 0
       /\ directProjection(q) < SCALE
       /\ Fround(directProjection(q)) # directProjection(q)
       /\ At(densityMaps[1], q) = Fround(directProjection(q))

\* the opacity map of layer ci as an AM screen of the given pitch gives it
amMapAtPitch(p) ==
  [i \in 1 .. sourceData.width * sourceData.height |->
     Fround(halftoneAt((i - 1) % sourceData.width, (i - 1) \div sourceData.width,
                       At(At(densityMaps, ci), i - 1),
                       [halftoneOptions(options, ci) EXCEPT !.dotSize = p]))]

\* the opacity map of layer ci as an FM screen of the given pitch gives it
fmMapAtPitch(p) ==
  applyFMHalftone(At(densityMaps, ci), sourceData.width, sourceData.height,
                  [halftoneOptions(options, ci) EXCEPT !.dotSize = p])

\* C8: from the configured dot size p, AM synthesis computes its grid with
\* the pitch p + 1 and FM synthesis with the pitch p: the opacity map of a
\* layer is the AM screen of pitch p + 1 in AM mode and the FM screen of
\* pitch p in FM mode.
C8_AmPitchPlusOneFmPitch ==
  pc = "halftoned"
  => halftoneMap = IF options.halftoneMode = "fm"
                   THEN fmMapAtPitch(options.dotSize)
                   ELSE amMapAtPitch(options.dotSize + 1)

\* an AM layer of dot size 2 whose map is the screen of pitch 3 and differs
\* from the screen of pitch 2
C8_Witness ==
  /\ pc = "halftoned"
  /\ options.halftoneMode # "fm"
  /\ options.dotSize = 2
  /\ halftoneMap = amMapAtPitch(3)
  /\ halftoneMap # amMapAtPitch(2)

\* C9: with misregistration 0 and grain 0, every call with the same bitmap
\* and options puts the same bitmap on the canvas, channel for channel,
\* and draws no random number.
C9_RendersRepeat ==
  (options.misregistration = 0 /\ options.grain = 0)
  => /\ \A i \in DOMAIN history : \A j \in DOMAIN history :
          history[i] = history[j]
     /\ rng = Absent

\* two finished calls with two inks, FM screens and the scuff mask on, ink
\* deposited, and the second bitmap equal to the first
C9_Witness ==
  /\ Len(history) = 2
  /\ options.misregistration = 0
  /\ options.grain = 0
  /\ noiseOf(options) > 0
  /\ Len(options.colors) = 2
  /\ \E q \in Pixels : pixelBytes(history[2], q) # paperPixel
  /\ history[1] = history[2]

\* C10, as the specification states it: with grain > 0 (and a positive dot
\* size), a pixel whose opacity after scuff and shift is exactly 0 is left
\* as it is by the layer, whatever random number is drawn for it.  The code
\* adds the grain to every pixel whose shifted source is in bounds, so an
\* opacity of 0 can be raised over the 0.004 cut and ink is blended in.
C10_GrainLeavesZeroOpacityAlone ==
  [][(pc = "scuffed" /\ options.grain > 0 /\ options.dotSize > 0)
     => \A q \in Pixels :
          LET x == q % sourceData.width
              y == q \div sourceData.width
              ox == offset'[1]
              oy == offset'[2]
          IN  (/\ inBounds(x, y, ox, oy, sourceData.width, sourceData.height)
               /\ At(halftoneMap, (y - oy) * sourceData.width + (x - ox)) = 0)
              => pixelBytes(out', q) = pixelBytes(out, q)]_vars

\* the opacity a pixel composites with when the map holds opacity for it and
\* Math.random() returns r for it
grained(opacity, r) ==
  IF options.grain > 0 /\ ~IsNaN(opacity)
  THEN Clamp01(opacity + Mul(r - SCALE \div 2, options.grain))
  ELSE opacity

\* the pixel that layer ci makes of pixel prev at an opacity
compositedPixel(prev, opacity) ==
  LET rgb == At(inkRgbsOf(options), ci)
      f == inkOpacityOf(options)
  IN  IF ~IsNaN(opacity) /\ opacity < 40 THEN prev
      ELSE <<blend(prev[1], opacity, f, rgb.r), blend(prev[2], opacity, f, rgb.g),
             blend(prev[3], opacity, f, rgb.b), prev[4]>>

\* C11: a layer composited with the offset (ox, oy) leaves output pixel
\* (x, y) as it was when (x - ox, y - oy) is outside the map, whatever the
\* grain, and otherwise composites it with the opacity the map holds at
\* (x - ox, y - oy) (perturbed by the grain of one Math.random() value):
\* no pixel reads the map at a wrapped position.
C11_ShiftHasNoWraparound ==
  [][pc = "scuffed"
     => \A q \in Pixels :
          LET sx == (q % sourceData.width) - offset'[1]
              sy == (q \div sourceData.width) - offset'[2]
          IN  IF sx < 0 \/ sx >= sourceData.width \/ sy < 0 \/ sy >= sourceData.height
              THEN pixelBytes(out', q) = pixelBytes(out, q)
              ELSE \E r \in RandomValues :
                     pixelBytes(out', q) =
                       compositedPixel(pixelBytes(out, q),
                                       grained(At(halftoneMap, sy * sourceData.width + sx), r))]_vars

\* the first layer composited with a nonzero offset and grain: the pixels
\* whose source is outside the map show the paper, a pixel whose source is
\* inside shows ink
C11_Witness ==
  /\ pc = "layers"
  /\ ci = 1
  /\ offset # <<0, 0>>
  /\ options.grain > 0
  /\ \A q \in Pixels :
       ~inBounds(q % sourceData.width, q \div sourceData.width, offset[1],
                 offset[2], sourceData.width, sourceData.height)
       => pixelBytes(out, q) = paperPixel
  /\ \E q \in Pixels :
       /\ inBounds(q % sourceData.width, q \div sourceData.width, offset[1],
                   offset[2], sourceData.width, sourceData.height)
       /\ pixelBytes(out, q) # paperPixel

\* round(previous * (1 - opacity * inkOpacity * (1 - inkChannel / 255)))
ruleByte(previous, opacity, inkChannel) ==
  (previous
     * (SCALE - Mul(Mul(opacity, inkOpacityOf(options)),
                    SCALE - Ratio(inkChannel, 255)))
   + SCALE \div 2) \div SCALE

\* the opacity map of layer k (from 0) of the options, with no scuff
plainMap(k) ==
  applyHalftone(At(densityMaps, k), sourceData.width, sourceData.height,
                halftoneOptions(options, k))

C13_ScuffMask ==
  [][pc = "halftoned"
     => /\ Len(halftoneMap') = Len(halftoneMap)
        /\ \A i \in 1 .. Len(halftoneMap) :
             ~IsNaN(halftoneMap[i])
             => halftoneMap'[i] =
                  IF /\ halftoneMap[i] >= 40
                     /\ smoothNoise((i - 1) % sourceData.width,
                                    (i - 1) \div sourceData.width,
                                    Max(options.dotSize * 3, 6),
                                    ci * 7919 + 31) < noiseOf(options)
                  THEN 0
                  ELSE halftoneMap[i]
        /\ noiseOf(options) = 0 => halftoneMap' = halftoneMap]_vars

\* a scuffed layer in which one element over the cut was zeroed and
\* another was kept
C13_Witness ==
  /\ pc = "scuffed"
  /\ noiseOf(options) > 0
  /\ options.dotSize = 2
  /\ \E i \in 1 .. Len(halftoneMap) :
       plainMap(ci)[i] >= 40 /\ halftoneMap[i] = 0
  /\ \E i \in 1 .. Len(halftoneMap) :
       halftoneMap[i] >= 40 /\ halftoneMap[i] = plainMap(ci)[i]

\* the channel of the paper color that byte k (from 1) of a buffer holds
paperByte(k) ==
  CASE k % 4 = 1 -> paperOf(options).r
    [] k % 4 = 2 -> paperOf(options).g
    [] k % 4 = 3 -> paperOf(options).b
    [] OTHER -> 255

transmittance(layer) ==
  SCALE - Mul(Mul(layer.opacity, inkOpacityOf([inkOpacity |-> Absent])),
              SCALE - Ratio(layer.inkChannel, 255))

C15_NoStaleRun ==
  \A i \in DOMAIN executed : executed[i].params = executed[i].current

=============================================================================
